---- MODULE Spec2Model ----
(***************************************************************************)
(* A model of the Pong server: the GameEngine state machine                *)
(* (backend/pong/game_engine.py) and the PongConsumer session handlers,    *)
(* the ACTIVE_ROOMS registry and the game_loop tasks                       *)
(* (backend/pong/consumers.py).                                            *)
(*                                                                         *)
(* Python floats are modelled in fixed point: one unit of the model is     *)
(* 1/Scale of a field unit, so the field is 100 * Scale wide.  Every       *)
(* coroutine is cut at its awaits: one action is the code that runs        *)
(* between two awaits, and actions of different connections and tasks      *)
(* interleave freely, as on the asyncio event loop.                        *)
(***************************************************************************)
EXTENDS Integers, Sequences, FiniteSets, TLC

\* ------------------------------------------------------------------------
\* Fixed point and the engine's constants (game_engine.py 17-26)
\* ------------------------------------------------------------------------

Scale == 1000

FIELD_WIDTH == 100
FIELD_HEIGHT == 100
PADDLE_WIDTH == 2
PADDLE_HEIGHT == 20
BALL_SIZE == 2
\* 0.8, 1.5 and 3.0 in units of 1/Scale
INITIAL_BALL_SPEED == 800
PADDLE_SPEED == 1500
MAX_BALL_SPEED == 3000
\* 1.05 as a percentage
SPEED_INCREASE_FACTOR == 105

\* a * b / c rounded to the nearest unit (c > 0)
MulDiv(a, b, c) == (2 * a * b + c) \div (2 * c)

Abs(x) == IF x < 0 THEN -x ELSE x
Min(a, b) == IF a <= b THEN a ELSE b
Max(a, b) == IF a >= b THEN a ELSE b

RECURSIVE SqrtSearch(_, _, _)
SqrtSearch(n, lo, hi) ==
    IF lo >= hi THEN lo
    ELSE LET mid == (lo + hi + 1) \div 2
         IN  IF mid * mid <= n THEN SqrtSearch(n, mid, hi)
             ELSE SqrtSearch(n, lo, mid - 1)

\* math.sqrt on fixed-point values: the integer square root
Sqrt(n) == SqrtSearch(n, 0, 8 * Scale)

\* The values random.uniform(-pi/4, pi/4) is drawn from in reset_ball, each
\* as <<cos, sin>> * INITIAL_BALL_SPEED: the angles 0 and +-atan(3/4), whose
\* components are exact in fixed point (0.8 * 0.8 = 0.64, 0.8 * 0.6 = 0.48).
ServeAngles == { <<800, 0>>, <<640, 480>>, <<640, -480>> }

\* random.choice([1, 2]) in start_game
ServeChoices == {1, 2}

\* a random source: every value, or one fixed draw
AnyRandom == [choice |-> ServeChoices, uniform |-> ServeAngles]
OneRandom == [choice |-> {1}, uniform |-> {<<640, 480>>}]

NoEvents == [paddle_hit |-> FALSE, wall_hit |-> FALSE, score |-> 0, game_over |-> FALSE]

\* ------------------------------------------------------------------------
\* GameEngine
\* ------------------------------------------------------------------------

GameEngine(room_code, points_limit) ==
    [ room_code         |-> room_code,
      points_limit      |-> points_limit,
      status            |-> "waiting_for_opponent",
      player1_ready     |-> FALSE,
      player2_ready     |-> FALSE,
      player1_connected |-> FALSE,
      player2_connected |-> FALSE,
      score_p1          |-> 0,
      score_p2          |-> 0,
      winner            |-> "None",
      p1_y              |-> 50 * Scale,
      p2_y              |-> 50 * Scale,
      p1_direction      |-> "stop",
      p2_direction      |-> "stop",
      ball_x            |-> 50 * Scale,
      ball_y            |-> 50 * Scale,
      ball_velocity_x   |-> 0,
      ball_velocity_y   |-> 0,
      ball_speed        |-> INITIAL_BALL_SPEED ]

player_join(e, player_num) ==
    IF player_num = 1 THEN
        [e EXCEPT !.player1_connected = TRUE,
                  !.status = IF e.player2_connected THEN "waiting_for_ready" ELSE @]
    ELSE IF player_num = 2 THEN
        [e EXCEPT !.player2_connected = TRUE,
                  !.status = IF e.player1_connected THEN "waiting_for_ready" ELSE @]
    ELSE e

\* angle is the <<cos, sin>> pair drawn by random.uniform
reset_ball(e, serve_to_player, angle) ==
    LET direction == IF serve_to_player = 2 THEN 1 ELSE -1
    IN  [e EXCEPT !.ball_x = 50 * Scale,
                  !.ball_y = 50 * Scale,
                  !.ball_speed = INITIAL_BALL_SPEED,
                  !.ball_velocity_x = direction * angle[1],
                  !.ball_velocity_y = angle[2]]

start_game(e, serve, angle) ==
    reset_ball([e EXCEPT !.status = "playing"], serve, angle)

\* player_ready that starts the game as soon as one of the two players is ready
player_ready_either(e, player_num, serve, angle) ==
    LET e1 == IF player_num = 1 THEN [e EXCEPT !.player1_ready = TRUE]
              ELSE IF player_num = 2 THEN [e EXCEPT !.player2_ready = TRUE]
              ELSE e
    IN  IF (e1.player1_ready \/ e1.player2_ready) /\ e1.status = "waiting_for_ready"
        THEN start_game(e1, serve, angle)
        ELSE e1

player_ready(e, player_num, serve, angle) ==
    LET e1 == IF player_num = 1 THEN [e EXCEPT !.player1_ready = TRUE]
              ELSE IF player_num = 2 THEN [e EXCEPT !.player2_ready = TRUE]
              ELSE e
    IN  IF e1.player1_ready /\ e1.player2_ready /\ e1.status = "waiting_for_ready"
        THEN start_game(e1, serve, angle)
        ELSE e1

\* set_paddle_direction that also moves the paddle at once, between two ticks
set_paddle_direction_moves(e, player_num, direction) ==
    IF player_num = 1
    THEN [e EXCEPT !.p1_direction = direction, !.p1_y = @ - PADDLE_SPEED]
    ELSE IF player_num = 2
    THEN [e EXCEPT !.p2_direction = direction, !.p2_y = @ - PADDLE_SPEED]
    ELSE e

set_paddle_direction(e, player_num, direction) ==
    IF player_num = 1 THEN [e EXCEPT !.p1_direction = direction]
    ELSE IF player_num = 2 THEN [e EXCEPT !.p2_direction = direction]
    ELSE e

PaddleStep(y, direction) ==
    IF direction = "up" THEN y - PADDLE_SPEED
    ELSE IF direction = "down" THEN y + PADDLE_SPEED
    ELSE y

PaddleClamp(y) ==
    LET paddle_half_height == (PADDLE_HEIGHT * Scale) \div 2
    IN  Max(paddle_half_height, Min(FIELD_HEIGHT * Scale - paddle_half_height, y))

\* lines 136-146 without the constraint of lines 148-151
_update_paddles_unclamped(e) ==
    [e EXCEPT !.p1_y = PaddleStep(e.p1_y, e.p1_direction),
              !.p2_y = PaddleStep(e.p2_y, e.p2_direction)]

_update_paddles(e) ==
    [e EXCEPT !.p1_y = PaddleClamp(PaddleStep(e.p1_y, e.p1_direction)),
              !.p2_y = PaddleClamp(PaddleStep(e.p2_y, e.p2_direction))]

\* Returns [engine, hit]
_check_paddle_collision(e, player_num) ==
    LET paddle_x == IF player_num = 1 THEN PADDLE_WIDTH * Scale
                    ELSE (FIELD_WIDTH - PADDLE_WIDTH) * Scale
        paddle_y == IF player_num = 1 THEN e.p1_y ELSE e.p2_y
        ball_moving_towards_paddle ==
            IF player_num = 1 THEN e.ball_velocity_x < 0 ELSE e.ball_velocity_x > 0
        ball_half_size == (BALL_SIZE * Scale) \div 2
        paddle_half_height == (PADDLE_HEIGHT * Scale) \div 2
        paddle_half_width == (PADDLE_WIDTH * Scale) \div 2
        ball_left == e.ball_x - ball_half_size
        ball_right == e.ball_x + ball_half_size
        ball_top == e.ball_y - ball_half_size
        ball_bottom == e.ball_y + ball_half_size
        paddle_left == paddle_x - paddle_half_width
        paddle_right == paddle_x + paddle_half_width
        paddle_top == paddle_y - paddle_half_height
        paddle_bottom == paddle_y + paddle_half_height
        vx == -e.ball_velocity_x
        \* hit_pos * 0.5 = (ball_y - paddle_y) / paddle_half_height / 2
        vy == e.ball_velocity_y + MulDiv(e.ball_y - paddle_y, 1, 2 * (PADDLE_HEIGHT \div 2))
        current_speed == Sqrt(vx * vx + vy * vy)
        new_speed == Min(MulDiv(current_speed, SPEED_INCREASE_FACTOR, 100), MAX_BALL_SPEED)
    IN  IF ~ball_moving_towards_paddle THEN [engine |-> e, hit |-> FALSE]
        ELSE IF ball_right >= paddle_left /\ ball_left <= paddle_right
                /\ ball_bottom >= paddle_top /\ ball_top <= paddle_bottom
        THEN [engine |->
                [e EXCEPT !.ball_velocity_x =
                              IF current_speed > 0 THEN MulDiv(vx, new_speed, current_speed) ELSE vx,
                          !.ball_velocity_y =
                              IF current_speed > 0 THEN MulDiv(vy, new_speed, current_speed) ELSE vy,
                          !.ball_x = IF player_num = 1
                                     THEN paddle_right + ball_half_size + Scale \div 10
                                     ELSE paddle_left - ball_half_size - Scale \div 10],
              hit |-> TRUE]
        ELSE [engine |-> e, hit |-> FALSE]

\* _handle_score that takes the point back when the match goes on
_handle_score_undone(e, angle) ==
    IF e.score_p1 >= e.points_limit THEN
        [e EXCEPT !.winner = "Player 1", !.status = "finished"]
    ELSE IF e.score_p2 >= e.points_limit THEN
        [e EXCEPT !.winner = "Player 2", !.status = "finished"]
    ELSE reset_ball([e EXCEPT !.score_p1 = 0, !.score_p2 = 0], 1, angle)

_handle_score(e, angle) ==
    IF e.score_p1 >= e.points_limit THEN
        [e EXCEPT !.winner = "Player 1", !.status = "finished"]
    ELSE IF e.score_p2 >= e.points_limit THEN
        [e EXCEPT !.winner = "Player 2", !.status = "finished"]
    ELSE reset_ball(e, IF e.score_p2 > e.score_p1 THEN 1 ELSE 2, angle)

\* Returns [engine, events]
_update_ball(e, angle) ==
    LET ball_half_size == (BALL_SIZE * Scale) \div 2
        bx == e.ball_x + e.ball_velocity_x
        by == e.ball_y + e.ball_velocity_y
        top == by - ball_half_size <= 0
        bottom == ~top /\ by + ball_half_size >= FIELD_HEIGHT * Scale
        e1 == [e EXCEPT !.ball_x = bx,
                        !.ball_y = IF top THEN ball_half_size
                                   ELSE IF bottom THEN FIELD_HEIGHT * Scale - ball_half_size
                                   ELSE by,
                        !.ball_velocity_y = IF top THEN Abs(@)
                                            ELSE IF bottom THEN -Abs(@)
                                            ELSE @]
        c1 == _check_paddle_collision(e1, 1)
        c2 == _check_paddle_collision(c1.engine, 2)
        e2 == c2.engine
        ev == [NoEvents EXCEPT !.paddle_hit = c1.hit \/ c2.hit, !.wall_hit = top \/ bottom]
    IN  IF e2.ball_x <= 0 THEN
            [engine |-> _handle_score([e2 EXCEPT !.score_p2 = @ + 1], angle),
             events |-> [ev EXCEPT !.score = 2]]
        ELSE IF e2.ball_x >= FIELD_WIDTH * Scale THEN
            [engine |-> _handle_score([e2 EXCEPT !.score_p1 = @ + 1], angle),
             events |-> [ev EXCEPT !.score = 1]]
        ELSE [engine |-> e2, events |-> ev]

\* update without the status check of lines 123-124
update_always(e, angle) == _update_ball(_update_paddles(e), angle)

\* Returns [engine, events]
update(e, angle) ==
    IF e.status # "playing" THEN [engine |-> e, events |-> NoEvents]
    ELSE _update_ball(_update_paddles(e), angle)


\* ------------------------------------------------------------------------
\* Bounds of the model
\* ------------------------------------------------------------------------

\* connection objects (PongConsumer instances) that exist in a run
NumConns == 5
\* room dicts ever created (connect, lines 37-43), over all room codes
MaxRooms == 3
\* game_loop tasks ever created (handle_player_ready, line 213)
MaxTasks == 3
\* messages a client of a free scenario sends before it closes
MaxMsgs == 3
\* engine.update calls of a run, in the scenarios that do not play a point
FewTicks == 2
\* engine.update calls of a run, in the scenarios that play points to the end
GameTicks == 400

Conns == 1 .. NumConns
Codes == {"A", "B"}
Slots == {1, 2}

\* ------------------------------------------------------------------------
\* State
\* ------------------------------------------------------------------------

VARIABLES
    ACTIVE_ROOMS,   \* room code -> index of its room dict in rooms, 0: no entry
    rooms,          \* every room dict ever created, in creation order
    tasks,          \* every game_loop task ever created, in creation order
    conn,           \* the PongConsumer instances
    groups,         \* the channel layer's groups: room code -> set of channels
    script,         \* what each client sends: a sequence of sets of messages
    random,         \* the values the random module can return in this run
    ticks_left      \* engine.update calls the run may still make

vars == <<ACTIVE_ROOMS, rooms, tasks, conn, groups, script, random, ticks_left>>

\* round(x, 2) of a fixed-point value: the nearest hundredth, a tie to the
\* even one
Round2(x) ==
    LET unit == Scale \div 100
        q == x \div unit
        rest == x % unit
    IN  IF 2 * rest > unit \/ (2 * rest = unit /\ q % 2 = 1)
        THEN (q + 1) * unit ELSE q * unit

\* the game_update message of an engine
get_state(e) ==
    [ type     |-> "game_update",
      status   |-> e.status,
      p1_y     |-> Round2(e.p1_y),
      p2_y     |-> Round2(e.p2_y),
      ball_x   |-> Round2(e.ball_x),
      ball_y   |-> Round2(e.ball_y),
      score_p1 |-> e.score_p1,
      score_p2 |-> e.score_p2,
      winner   |-> e.winner ]

NoEngine == [status |-> "None"]

\* a room dict (connect, lines 38-43); code is the key it was stored under,
\* constructed counts the GameEngine objects made for it, saved the match records written for its engine and
\* game_over the game_over broadcasts about it
NewRoom(code) ==
    [engine |-> NoEngine, task |-> 0, players |-> [n \in Slots |-> 0],
     observers |-> <<>>, code |-> code, constructed |-> 0, saved |-> 0, game_over |-> 0]

\* a PongConsumer before connect; reply is what self.send sent while the last
\* frame was handled, bcast the type of the message that handler gave to
\* group_send
NewConn(code, present) ==
    [pc |-> IF present THEN "new" ELSE "absent", room_code |-> code,
     role |-> "None", player_num |-> 0, room |-> 0, ip |-> 0,
     pd_num |-> 0, pd_to |-> {}, reply |-> <<>>, bcast |-> "None"]

\* a client message; the fields a type does not carry keep these defaults
Msg(type) == [type |-> type, points_limit |-> 5, role |-> "player", direction |-> "stop"]
CreateRoom(n) == [Msg("create_room") EXCEPT !.points_limit = n]
JoinGame(r) == [Msg("join_game") EXCEPT !.role = r]
PlayerReady == Msg("player_ready")
MovePaddle(d) == [Msg("move_paddle") EXCEPT !.direction = d]
Close == Msg("close")
\* a text frame that json.loads rejects, a message of a type receive does not
\* know, and a message without a type (data.get('type') is None)
NotJson == Msg("<not json>")
UnknownType == Msg("bogus")
NoType == Msg("None")

\* asyncio.create_task(self.game_loop()): the coroutine has not run yet
NewTask(c) == [pc |-> "created", cancel |-> FALSE, self |-> c, room |-> 0,
               events |-> NoEvents]

\* task.done()
done(t) == tasks[t].pc = "done"

\* `if room["task"] and not room["task"].done(): room["task"].cancel()`
CancelIfRunning(ts, t) ==
    IF t # 0 /\ ts[t].pc # "done" THEN [ts EXCEPT ![t].cancel = TRUE] ELSE ts

\* list.remove(x): the first occurrence only
RECURSIVE RemoveFirst(_, _)
RemoveFirst(s, x) ==
    IF s = <<>> THEN s
    ELSE IF Head(s) = x THEN Tail(s)
    ELSE <<Head(s)>> \o RemoveFirst(Tail(s), x)

InSeq(s, x) == \E i \in 1 .. Len(s) : s[i] = x

\* `not room["players"] and not room["observers"]`
RoomEmpty(room) == (\A n \in Slots : room.players[n] = 0) /\ room.observers = <<>>

\* the message the client of c sends next
NextMsgs(c) ==
    IF conn[c].pc = "open" /\ conn[c].ip < Len(script[c])
    THEN script[c][conn[c].ip + 1] ELSE {}

\* the handler of c has returned: the consumer waits for its next message
Handled(cs, c) == [cs EXCEPT ![c].pc = "open", ![c].ip = @ + 1]

\* the handler of c has returned after it sent reply to its client and
\* nothing to the group
Replied(cs, c, reply) ==
    [Handled(cs, c) EXCEPT ![c].reply = reply, ![c].bcast = "None"]


\* ------------------------------------------------------------------------
\* PongConsumer.connect
\* ------------------------------------------------------------------------

\* lines 23-32 with one group name for every room code
ConnectOneGroup(c) ==
    /\ conn[c].pc = "new"
    /\ groups' = [groups EXCEPT !["A"] = @ \cup {c}]
    /\ conn' = [conn EXCEPT ![c].pc = "connect:accept"]
    /\ UNCHANGED <<ACTIVE_ROOMS, rooms, tasks, script, random, ticks_left>>

\* lines 23-32: up to `await group_add`
Connect(c) ==
    /\ conn[c].pc = "new"
    /\ groups' = [groups EXCEPT ![conn[c].room_code] = @ \cup {c}]
    /\ conn' = [conn EXCEPT ![c].pc = "connect:accept"]
    /\ UNCHANGED <<ACTIVE_ROOMS, rooms, tasks, script, random, ticks_left>>

\* lines 34-43: accept, then the room is made if the code has none
ConnectRoom(c) ==
    /\ conn[c].pc = "connect:accept"
    /\ LET k == conn[c].room_code
       IN  IF ACTIVE_ROOMS[k] = 0
           THEN /\ Len(rooms) < MaxRooms
                /\ rooms' = Append(rooms, NewRoom(k))
                /\ ACTIVE_ROOMS' = [ACTIVE_ROOMS EXCEPT ![k] = Len(rooms) + 1]
           ELSE UNCHANGED <<ACTIVE_ROOMS, rooms>>
    /\ conn' = [conn EXCEPT ![c].pc = "open"]
    /\ UNCHANGED <<tasks, groups, script, random, ticks_left>>

\* ------------------------------------------------------------------------
\* PongConsumer.disconnect
\* ------------------------------------------------------------------------

\* the client closes the socket; lines 47-51: up to `await group_discard`
Disconnect(c) ==
    /\ Close \in NextMsgs(c)
    /\ groups' = [groups EXCEPT ![conn[c].room_code] = @ \ {c}]
    /\ conn' = [conn EXCEPT ![c].pc = "disconnect:group_discard"]
    /\ UNCHANGED <<ACTIVE_ROOMS, rooms, tasks, script, random, ticks_left>>

\* lines 80-83 without line 83: the task is cancelled, the entry is kept
CleanupKeepsEntry(rs, ts, r, k) ==
    IF ACTIVE_ROOMS[k] # 0 /\ RoomEmpty(rs[r])
    THEN [reg |-> ACTIVE_ROOMS, tasks |-> CancelIfRunning(ts, rs[r].task)]
    ELSE [reg |-> ACTIVE_ROOMS, tasks |-> ts]

\* lines 80-83 on room dict r: the registry and the tasks after them
Cleanup(rs, ts, r, k) ==
    IF ACTIVE_ROOMS[k] # 0 /\ RoomEmpty(rs[r])
    THEN [reg |-> [ACTIVE_ROOMS EXCEPT ![k] = 0], tasks |-> CancelIfRunning(ts, rs[r].task)]
    ELSE [reg |-> ACTIVE_ROOMS, tasks |-> ts]

\* lines 54-83, up to `await group_send` when the consumer is a player
DisconnectRoom(c) ==
    /\ conn[c].pc = "disconnect:group_discard"
    /\ LET k == conn[c].room_code
           r == ACTIVE_ROOMS[k]
       IN  IF r = 0 THEN
               /\ conn' = [conn EXCEPT ![c].pc = "closed"]
               /\ UNCHANGED <<ACTIVE_ROOMS, rooms, tasks>>
           ELSE IF conn[c].role = "player" /\ conn[c].player_num # 0 THEN
               /\ rooms' = [rooms EXCEPT ![r].players[conn[c].player_num] = 0]
               /\ tasks' = CancelIfRunning(tasks, rooms[r].task)
               /\ conn' = [conn EXCEPT ![c].pc = "disconnect:group_send",
                                       ![c].room = r,
                                       ![c].pd_num = conn[c].player_num,
                                       ![c].pd_to = groups[k]]
               /\ UNCHANGED ACTIVE_ROOMS
           ELSE
               LET rs == IF conn[c].role = "observer"
                         THEN [rooms EXCEPT ![r].observers = RemoveFirst(@, c)]
                         ELSE rooms
                   cl == Cleanup(rs, tasks, r, k)
               IN  /\ rooms' = rs
                   /\ tasks' = cl.tasks
                   /\ ACTIVE_ROOMS' = cl.reg
                   /\ conn' = [conn EXCEPT ![c].pc = "closed"]
    /\ UNCHANGED <<groups, script, random, ticks_left>>

\* lines 79-83 after `await group_send`, on the room dict read before it
DisconnectCleanup(c) ==
    /\ conn[c].pc = "disconnect:group_send"
    /\ LET cl == Cleanup(rooms, tasks, conn[c].room, conn[c].room_code)
       IN  /\ tasks' = cl.tasks
           /\ ACTIVE_ROOMS' = cl.reg
    /\ conn' = [conn EXCEPT ![c].pc = "closed"]
    /\ UNCHANGED <<rooms, groups, script, random, ticks_left>>

\* ------------------------------------------------------------------------
\* PongConsumer.receive and its handlers
\* ------------------------------------------------------------------------

\* lines 116-130 without the `is None` test: every create_room makes an engine
handle_create_room_always(c, m) ==
    /\ m.type = "create_room"
    /\ LET r == ACTIVE_ROOMS[conn[c].room_code]
       IN  IF r # 0
           THEN /\ rooms' = [rooms EXCEPT
                     ![r].engine = GameEngine(conn[c].room_code, m.points_limit),
                     ![r].constructed = @ + 1]
                /\ conn' = Replied(conn, c, <<"room_created">>)
           ELSE /\ UNCHANGED rooms
                /\ conn' = Replied(conn, c, <<>>)
    /\ UNCHANGED <<ACTIVE_ROOMS, tasks, groups, script, random, ticks_left>>

\* lines 116-130
handle_create_room(c, m) ==
    /\ m.type = "create_room"
    /\ LET r == ACTIVE_ROOMS[conn[c].room_code]
       IN  IF r # 0 /\ rooms[r].engine = NoEngine
           THEN /\ rooms' = [rooms EXCEPT
                     ![r].engine = GameEngine(conn[c].room_code, m.points_limit),
                     ![r].constructed = @ + 1]
                /\ conn' = Replied(conn, c, <<"room_created">>)
           ELSE /\ UNCHANGED rooms
                /\ conn' = Replied(conn, c, <<>>)
    /\ UNCHANGED <<ACTIVE_ROOMS, tasks, groups, script, random, ticks_left>>

\* lines 143-149 without the `is None` test: every join makes an engine
WithEngineAlways(room, code) ==
    [room EXCEPT !.engine = GameEngine(code, 5), !.constructed = @ + 1]

\* lines 143-149 on a room dict: the engine is made if there is none
WithEngine(room, code) ==
    IF room.engine = NoEngine
    THEN [room EXCEPT !.engine = GameEngine(code, 5), !.constructed = @ + 1]
    ELSE room

\* lines 151-163 with slot 2 given away when both slots are taken
AssignSlotOverwrite(room, c, role, player_num) ==
    IF role # "player" THEN [room |-> room, player_num |-> player_num, role |-> role]
    ELSE IF room.players[1] = 0 THEN
        [room |-> [room EXCEPT !.players[1] = c, !.engine = player_join(@, 1)],
         player_num |-> 1, role |-> role]
    ELSE
        [room |-> [room EXCEPT !.players[2] = c, !.engine = player_join(@, 2)],
         player_num |-> 2, role |-> role]

\* lines 151-163: [room, player_num, role] after the slot is chosen
AssignSlot(room, c, role, player_num) ==
    IF role # "player" THEN [room |-> room, player_num |-> player_num, role |-> role]
    ELSE IF room.players[1] = 0 THEN
        [room |-> [room EXCEPT !.players[1] = c, !.engine = player_join(@, 1)],
         player_num |-> 1, role |-> role]
    ELSE IF room.players[2] = 0 THEN
        [room |-> [room EXCEPT !.players[2] = c, !.engine = player_join(@, 2)],
         player_num |-> 2, role |-> role]
    ELSE [room |-> room, player_num |-> player_num, role |-> "observer"]

\* lines 132-178, up to `await self.send` of the acknowledgement
handle_join_game(c, m) ==
    /\ m.type = "join_game"
    /\ LET k == conn[c].room_code
           r == ACTIVE_ROOMS[k]
       IN  IF r = 0 THEN
               /\ conn' = Replied(conn, c, <<"error">>)
               /\ UNCHANGED rooms
           ELSE
               LET a == AssignSlot(WithEngine(rooms[r], k), c, m.role, conn[c].player_num)
               IN  IF a.role = "observer" THEN
                       /\ rooms' = [rooms EXCEPT ![r] = [a.room EXCEPT !.observers = Append(@, c)]]
                       /\ conn' = [conn EXCEPT ![c].role = "observer",
                                               ![c].player_num = a.player_num,
                                               ![c].room = r,
                                               ![c].reply = <<"joined_as_observer">>,
                                               ![c].bcast = "None",
                                               ![c].pc = "join_game:send"]
                   ELSE
                       /\ rooms' = [rooms EXCEPT ![r] = a.room]
                       /\ conn' = [conn EXCEPT ![c].role = "player",
                                               ![c].player_num = a.player_num,
                                               ![c].room = r,
                                               ![c].reply = <<"joined_as_player">>,
                                               ![c].bcast = "None",
                                               ![c].pc = "join_game:send"]
    /\ UNCHANGED <<ACTIVE_ROOMS, tasks, groups, script, random, ticks_left>>

\* lines 180-187: the status_change broadcast, then the handler returns
JoinBroadcast(c) ==
    /\ conn[c].pc = "join_game:send"
    /\ conn' = [Handled(conn, c) EXCEPT ![c].bcast = "status_change"]
    /\ UNCHANGED <<ACTIVE_ROOMS, rooms, tasks, groups, script, random, ticks_left>>

\* lines 189-209, up to `await group_send`
handle_player_ready(c, m) ==
    /\ m.type = "player_ready"
    /\ LET r == ACTIVE_ROOMS[conn[c].room_code]
       IN  IF conn[c].role # "player" \/ conn[c].player_num = 0 \/ r = 0 THEN
               /\ conn' = Replied(conn, c, <<>>)
               /\ UNCHANGED rooms
           ELSE IF rooms[r].engine = NoEngine THEN
               \* engine.player_ready on None raises; receive answers with an error
               /\ conn' = Replied(conn, c, <<"error">>)
               /\ UNCHANGED rooms
           ELSE
               /\ \E serve \in random.choice, angle \in random.uniform :
                      rooms' = [rooms EXCEPT
                          ![r].engine = player_ready(@, conn[c].player_num, serve, angle)]
               /\ conn' = [conn EXCEPT ![c].room = r,
                                       ![c].reply = <<>>,
                                       ![c].bcast = "status_change",
                                       ![c].pc = "player_ready:group_send"]
    /\ UNCHANGED <<ACTIVE_ROOMS, tasks, groups, script, random, ticks_left>>

\* lines 211-213 after `await group_send`
ReadyStartLoop(c) ==
    /\ conn[c].pc = "player_ready:group_send"
    /\ LET r == conn[c].room
       IN  IF rooms[r].engine.status = "playing"
              /\ (rooms[r].task = 0 \/ done(rooms[r].task))
           THEN /\ Len(tasks) < MaxTasks
                /\ tasks' = Append(tasks, NewTask(c))
                /\ rooms' = [rooms EXCEPT ![r].task = Len(tasks) + 1]
           ELSE UNCHANGED <<rooms, tasks>>
    /\ conn' = Handled(conn, c)
    /\ UNCHANGED <<ACTIVE_ROOMS, groups, script, random, ticks_left>>

\* lines 215-233
handle_move_paddle(c, m) ==
    /\ m.type = "move_paddle"
    /\ LET r == ACTIVE_ROOMS[conn[c].room_code]
       IN  IF conn[c].role # "player" \/ conn[c].player_num = 0 \/ r = 0 THEN
               /\ conn' = Replied(conn, c, <<>>)
               /\ UNCHANGED rooms
           ELSE IF rooms[r].engine = NoEngine THEN
               \* engine.status on None raises; receive answers with an error
               /\ conn' = Replied(conn, c, <<"error">>)
               /\ UNCHANGED rooms
           ELSE
               /\ conn' = Replied(conn, c, <<>>)
               /\ IF rooms[r].engine.status # "playing"
                     \/ m.direction \notin {"up", "down", "stop"}
                  THEN UNCHANGED rooms
                  ELSE rooms' = [rooms EXCEPT
                           ![r].engine = set_paddle_direction(@, conn[c].player_num,
                                                              m.direction)]
    /\ UNCHANGED <<ACTIVE_ROOMS, tasks, groups, script, random, ticks_left>>

\* lines 99-109 with the error given to group_send instead of self.send
receive_error_broadcast(c, m) ==
    /\ m.type \notin {"create_room", "join_game", "player_ready", "move_paddle", "close"}
    /\ conn' = [Handled(conn, c) EXCEPT ![c].reply = <<>>, ![c].bcast = "error"]
    /\ UNCHANGED <<ACTIVE_ROOMS, rooms, tasks, groups, script, random, ticks_left>>

\* lines 88-89 and 99-109: json.loads raises JSONDecodeError, or the type is
\* none of the four: one error message goes to the sender
receive_error(c, m) ==
    /\ m.type \notin {"create_room", "join_game", "player_ready", "move_paddle", "close"}
    /\ conn' = Replied(conn, c, <<"error">>)
    /\ UNCHANGED <<ACTIVE_ROOMS, rooms, tasks, groups, script, random, ticks_left>>

\* lines 85-114: the dispatch on the message type
receive(c) ==
    \E m \in NextMsgs(c) :
        \/ handle_create_room(c, m)
        \/ handle_join_game(c, m)
        \/ handle_player_ready(c, m)
        \/ handle_move_paddle(c, m)
        \/ receive_error(c, m)


\* ------------------------------------------------------------------------
\* PongConsumer.game_loop, one task per asyncio.create_task
\* ------------------------------------------------------------------------

\* lines 246-255 on room dict r: one pass of the while loop up to
\* `await group_send(state)`, or the loop's end
LoopPass(t, r) ==
    IF rooms[r].engine.status = "playing" THEN
        /\ ticks_left > 0
        /\ ticks_left' = ticks_left - 1
        /\ \E angle \in random.uniform :
              LET u == update(rooms[r].engine, angle)
              IN  /\ rooms' = [rooms EXCEPT ![r].engine = u.engine]
                  /\ tasks' = [tasks EXCEPT ![t].pc = "loop:group_send",
                                            ![t].room = r,
                                            ![t].events = u.events]
    ELSE
        /\ tasks' = [tasks EXCEPT ![t].pc = "done", ![t].room = r]
        /\ UNCHANGED <<rooms, ticks_left>>

\* lines 237-255: the task runs for the first time
LoopStart(t) ==
    /\ t \in DOMAIN tasks
    /\ tasks[t].pc = "created" /\ ~tasks[t].cancel
    /\ LET r == ACTIVE_ROOMS[conn[tasks[t].self].room_code]
       IN  IF r = 0 \/ rooms[r].engine = NoEngine THEN
               \* no room: return; no engine: engine.status raises
               /\ tasks' = [tasks EXCEPT ![t].pc = "done"]
               /\ UNCHANGED <<rooms, ticks_left>>
           ELSE LoopPass(t, r)
    /\ UNCHANGED <<ACTIVE_ROOMS, conn, groups, script, random>>

\* lines 257-271 after `await group_send(state)`
LoopSent(t) ==
    /\ t \in DOMAIN tasks
    /\ tasks[t].pc = "loop:group_send" /\ ~tasks[t].cancel
    /\ tasks' = [tasks EXCEPT ![t].pc =
           IF rooms[tasks[t].room].engine.status = "finished"
           THEN "loop:save" ELSE "loop:sleep"]
    /\ UNCHANGED <<ACTIVE_ROOMS, rooms, conn, groups, script, random, ticks_left>>

\* line 246 with the CancelledError of a cancelled task never delivered
LoopWakeUncancelled(t) ==
    /\ t \in DOMAIN tasks
    /\ tasks[t].pc = "loop:sleep"
    /\ LoopPass(t, tasks[t].room)
    /\ UNCHANGED <<ACTIVE_ROOMS, conn, groups, script, random>>

\* line 246 after `await asyncio.sleep`
LoopWake(t) ==
    /\ t \in DOMAIN tasks
    /\ tasks[t].pc = "loop:sleep" /\ ~tasks[t].cancel
    /\ LoopPass(t, tasks[t].room)
    /\ UNCHANGED <<ACTIVE_ROOMS, conn, groups, script, random>>

\* lines 260-267: save_match_history has returned, game_over is broadcast
LoopSaved(t) ==
    /\ t \in DOMAIN tasks
    /\ tasks[t].pc = "loop:save" /\ ~tasks[t].cancel
    /\ rooms' = [rooms EXCEPT ![tasks[t].room].saved = @ + 1,
                              ![tasks[t].room].game_over = @ + 1]
    /\ tasks' = [tasks EXCEPT ![t].pc = "loop:game_over"]
    /\ UNCHANGED <<ACTIVE_ROOMS, conn, groups, script, random, ticks_left>>

\* line 268 after `await group_send(game_over_data)`: break
LoopOver(t) ==
    /\ t \in DOMAIN tasks
    /\ tasks[t].pc = "loop:game_over" /\ ~tasks[t].cancel
    /\ tasks' = [tasks EXCEPT ![t].pc = "done"]
    /\ UNCHANGED <<ACTIVE_ROOMS, rooms, conn, groups, script, random, ticks_left>>

\* lines 273-275: task.cancel() was called; the task is resumed with
\* CancelledError at its await (or before its first line) and ends
LoopCancelled(t) ==
    /\ t \in DOMAIN tasks
    /\ tasks[t].pc # "done" /\ tasks[t].cancel
    /\ tasks' = [tasks EXCEPT ![t].pc = "done"]
    /\ UNCHANGED <<ACTIVE_ROOMS, rooms, conn, groups, script, random, ticks_left>>

TaskIds == 1 .. MaxTasks

\* ------------------------------------------------------------------------
\* Specifications
\* ------------------------------------------------------------------------

\* the state after module import, with the clients' scripts scr, the
\* connections that exist pr, the random source rnd and the tick budget n
InitWith(scr, pr, rnd, n) ==
    /\ ACTIVE_ROOMS = [k \in Codes |-> 0]
    /\ rooms = <<>>
    /\ tasks = <<>>
    /\ groups = [k \in Codes |-> {}]
    /\ conn = [c \in Conns |-> NewConn("A", c \in pr)]
    /\ script = scr
    /\ random = rnd
    /\ ticks_left = n

\* the two steps of connect
NextConnect(c) ==
    \/ Connect(c)
    \/ ConnectRoom(c)

\* connect and the steps of join_game and player_ready after their awaits
NextSession(c) ==
    \/ NextConnect(c)
    \/ JoinBroadcast(c)
    \/ ReadyStartLoop(c)

NextDisconnect(c) ==
    \/ Disconnect(c)
    \/ DisconnectRoom(c)
    \/ DisconnectCleanup(c)

NextLoop(t) ==
    \/ LoopStart(t)
    \/ LoopSent(t)
    \/ LoopWake(t)

NextLoopEnd(t) ==
    \/ LoopSaved(t)
    \/ LoopOver(t)

\* ---- a match played to its end by connections 1 and 2

GameScript ==
    [c \in Conns |->
        IF c = 1 THEN << {CreateRoom(0), CreateRoom(1), CreateRoom(2)},
                         {JoinGame("player")}, {PlayerReady} >>
        ELSE IF c = 2 THEN << {JoinGame("player")}, {PlayerReady} >>
        ELSE << >>]

InitGame == InitWith(GameScript, {1, 2}, AnyRandom, GameTicks)

NextGame ==
    \/ \E c \in Conns : NextSession(c)
    \/ \E c \in Conns : \E m \in NextMsgs(c) : handle_create_room(c, m)
    \/ \E c \in Conns : \E m \in NextMsgs(c) : handle_join_game(c, m)
    \/ \E c \in Conns : \E m \in NextMsgs(c) : handle_player_ready(c, m)
    \/ \E t \in TaskIds : NextLoop(t)
    \/ \E t \in TaskIds : NextLoopEnd(t)

SpecGame == InitGame /\ [][NextGame]_vars

\* ---- the free scenario: FreeConns clients, each sends any MaxMsgs messages
\* ---- and may close at any time

\* the messages a client of the free scenario chooses from
Messages ==
    {CreateRoom(1)}
    \cup {JoinGame(r) : r \in {"player", "observer", "other"}}
    \cup {PlayerReady}
    \cup {MovePaddle(d) : d \in {"up", "left"}}

FreeConns == 2

FreeScript ==
    [c \in Conns |-> [i \in 1 .. MaxMsgs + 1 |->
        IF i <= MaxMsgs THEN Messages \cup {Close} ELSE {Close}]]

Init == InitWith(FreeScript, 1 .. FreeConns, AnyRandom, FewTicks)

Next ==
    \/ \E c \in Conns : NextSession(c)
    \/ \E c \in Conns : NextDisconnect(c)
    \/ \E c \in Conns : \E m \in NextMsgs(c) : handle_create_room(c, m)
    \/ \E c \in Conns : \E m \in NextMsgs(c) : handle_join_game(c, m)
    \/ \E c \in Conns : \E m \in NextMsgs(c) : handle_player_ready(c, m)
    \/ \E c \in Conns : \E m \in NextMsgs(c) : handle_move_paddle(c, m)
    \/ \E t \in TaskIds : NextLoop(t)
    \/ \E t \in TaskIds : LoopCancelled(t)

Spec == Init /\ [][Next]_vars

\* ---- a disconnect suspended at its group_send while the room is deleted
\* ---- and made again: 1 joins and leaves, 2 only connects and leaves, 3 and 4
\* ---- each join twice and send ready twice

RaceScript ==
    [c \in Conns |->
        IF c = 1 THEN << {JoinGame("player")}, {Close} >>
        ELSE IF c = 2 THEN << {Close} >>
        ELSE IF c \in {3, 4} THEN << {JoinGame("player")}, {PlayerReady},
                                    {JoinGame("player")}, {PlayerReady} >>
        ELSE << >>]

InitRace == InitWith(RaceScript, 1 .. 4, OneRandom, FewTicks)

NextRace ==
    \/ \E c \in Conns : NextSession(c)
    \/ \E c \in Conns : NextDisconnect(c)
    \/ \E c \in Conns : \E m \in NextMsgs(c) : handle_join_game(c, m)
    \/ \E c \in Conns : \E m \in NextMsgs(c) : handle_player_ready(c, m)
    \/ \E t \in TaskIds : NextLoop(t)

SpecRace == InitRace /\ [][NextRace]_vars

\* ---- the same race with joins only: 1 joins and leaves, 2 only connects and
\* ---- leaves, 3 joins and leaves, 4 and 5 join and stay

SlotScript ==
    [c \in Conns |->
        IF c \in {1, 3} THEN << {JoinGame("player")}, {Close} >>
        ELSE IF c = 2 THEN << {Close} >>
        ELSE << {JoinGame("player")} >>]

InitSlot == InitWith(SlotScript, Conns, OneRandom, FewTicks)

NextSlot ==
    \/ \E c \in Conns : NextConnect(c)
    \/ \E c \in Conns : NextDisconnect(c)
    \/ \E c \in Conns : \E m \in NextMsgs(c) : handle_join_game(c, m)
    \/ \E c \in Conns : JoinBroadcast(c)

SpecSlot == InitSlot /\ [][NextSlot]_vars

\* ---- first access: JoinConns clients connect to a fresh code and each sends
\* ---- two create_room or join_game messages, nobody leaves

JoinConns == 3

JoinScript ==
    [c \in Conns |-> [i \in 1 .. 2 |->
        {CreateRoom(1), CreateRoom(2), JoinGame("player"), JoinGame("observer")}]]

InitJoin == InitWith(JoinScript, 1 .. JoinConns, OneRandom, FewTicks)

NextJoin ==
    \/ \E c \in Conns : NextConnect(c)
    \/ \E c \in Conns : \E m \in NextMsgs(c) : handle_create_room(c, m)
    \/ \E c \in Conns : \E m \in NextMsgs(c) : handle_join_game(c, m)
    \/ \E c \in Conns : JoinBroadcast(c)

SpecJoin == InitJoin /\ [][NextJoin]_vars

\* ---- two rooms at the same time: 1 and 2 play under code A and 1 leaves,
\* ---- 3 and 4 play under code B

TwoScript ==
    [c \in Conns |->
        IF c = 1 THEN << {JoinGame("player")}, {PlayerReady}, {Close} >>
        ELSE IF c = 2 THEN << {JoinGame("player")}, {PlayerReady}, {MovePaddle("up")} >>
        ELSE IF c \in {3, 4} THEN << {JoinGame("player")}, {PlayerReady} >>
        ELSE << >>]

InitTwo ==
    /\ ACTIVE_ROOMS = [k \in Codes |-> 0]
    /\ rooms = <<>>
    /\ tasks = <<>>
    /\ groups = [k \in Codes |-> {}]
    /\ conn = [c \in Conns |-> NewConn(IF c <= 2 THEN "A" ELSE "B", c <= 4)]
    /\ script = TwoScript
    /\ random = OneRandom
    /\ ticks_left = FewTicks

NextTwo ==
    \/ \E c \in Conns : NextSession(c)
    \/ \E c \in Conns : NextDisconnect(c)
    \/ \E c \in Conns : \E m \in NextMsgs(c) : handle_join_game(c, m)
    \/ \E c \in Conns : \E m \in NextMsgs(c) : handle_player_ready(c, m)
    \/ \E c \in Conns : \E m \in NextMsgs(c) : handle_move_paddle(c, m)
    \/ \E t \in TaskIds : NextLoop(t)
    \/ \E t \in TaskIds : LoopCancelled(t)

SpecTwo == InitTwo /\ [][NextTwo]_vars

\* ---- frames receive cannot dispatch, sent before, between and after the
\* ---- messages of a match

BadFrames == {NotJson, UnknownType, NoType}

OddScript ==
    [c \in Conns |->
        IF c = 1 THEN << BadFrames, {JoinGame("player")}, BadFrames, {PlayerReady},
                         BadFrames >>
        ELSE IF c = 2 THEN << {JoinGame("player")}, {PlayerReady}, BadFrames >>
        ELSE << >>]

InitOdd == InitWith(OddScript, {1, 2}, OneRandom, FewTicks)

NextOdd ==
    \/ \E c \in Conns : NextSession(c)
    \/ \E c \in Conns : \E m \in NextMsgs(c) : handle_join_game(c, m)
    \/ \E c \in Conns : \E m \in NextMsgs(c) : handle_player_ready(c, m)
    \/ \E c \in Conns : \E m \in NextMsgs(c) : receive_error(c, m)
    \/ \E t \in TaskIds : NextLoop(t)

SpecOdd == InitOdd /\ [][NextOdd]_vars

\* ---- a player of a room whose code is left and taken again sends
\* ---- move_paddle with a direction the engine does not know

StaleScript ==
    [c \in Conns |->
        IF c = 1 THEN << {JoinGame("player")}, {Close} >>
        ELSE IF c = 2 THEN << {Close} >>
        ELSE IF c = 3 THEN << {JoinGame("player")}, {MovePaddle("left")} >>
        ELSE << >>]

InitStale == InitWith(StaleScript, {1, 2, 3, 4}, OneRandom, FewTicks)

NextStale ==
    \/ \E c \in Conns : NextConnect(c)
    \/ \E c \in Conns : NextDisconnect(c)
    \/ \E c \in Conns : \E m \in NextMsgs(c) : handle_join_game(c, m)
    \/ \E c \in Conns : JoinBroadcast(c)
    \/ \E c \in Conns : \E m \in NextMsgs(c) : handle_move_paddle(c, m)

SpecStale == InitStale /\ [][NextStale]_vars

\* ---- the engine alone: a new GameEngine of room 1 and any sequence of calls
\* ---- of its methods, with at most PaddleTicks calls of update

PaddleTicks == 30

PaddleDirections == {"up", "down", "stop"}

InitEngine ==
    /\ ACTIVE_ROOMS = [k \in Codes |-> IF k = "A" THEN 1 ELSE 0]
    /\ rooms = << WithEngine(NewRoom("A"), "A") >>
    /\ tasks = <<>>
    /\ groups = [k \in Codes |-> {}]
    /\ conn = [c \in Conns |-> NewConn("A", FALSE)]
    /\ script = [c \in Conns |-> <<>>]
    /\ random = OneRandom
    /\ ticks_left = PaddleTicks

EngineCall(e) ==
    /\ rooms' = [rooms EXCEPT ![1].engine = e]
    /\ UNCHANGED <<ACTIVE_ROOMS, tasks, conn, groups, script, random, ticks_left>>

\* player_join, called once for each player
EnginePlayerJoin(n) ==
    /\ ~(IF n = 1 THEN rooms[1].engine.player1_connected
                  ELSE rooms[1].engine.player2_connected)
    /\ EngineCall(player_join(rooms[1].engine, n))

EnginePlayerReady(n) ==
    \E serve \in random.choice : \E angle \in random.uniform :
        EngineCall(player_ready(rooms[1].engine, n, serve, angle))

EngineSetPaddleDirection(n, d) == EngineCall(set_paddle_direction(rooms[1].engine, n, d))

\* update; only a tick of a match in play counts against PaddleTicks
EngineUpdate ==
    /\ IF rooms[1].engine.status = "playing"
       THEN ticks_left > 0 /\ ticks_left' = ticks_left - 1
       ELSE UNCHANGED ticks_left
    /\ \E angle \in random.uniform :
           rooms' = [rooms EXCEPT ![1].engine = update(@, angle).engine]
    /\ UNCHANGED <<ACTIVE_ROOMS, tasks, conn, groups, script, random>>

NextEngine ==
    \/ \E n \in Slots : EnginePlayerJoin(n)
    \/ \E n \in Slots : EnginePlayerReady(n)
    \/ \E n \in Slots : \E d \in PaddleDirections : EngineSetPaddleDirection(n, d)
    \/ EngineUpdate

SpecEngine == InitEngine /\ [][NextEngine]_vars

\* ---- a match to one point, which player 2 may leave at any moment after
\* ---- having declared ready

LeaveScript ==
    [c \in Conns |->
        IF c = 1 THEN << {CreateRoom(1)}, {JoinGame("player")}, {PlayerReady} >>
        ELSE IF c = 2 THEN << {JoinGame("player")}, {PlayerReady}, {Close} >>
        ELSE << >>]

InitLeave == InitWith(LeaveScript, {1, 2}, OneRandom, GameTicks)

NextLeave ==
    \/ \E c \in Conns : NextSession(c)
    \/ \E c \in Conns : NextDisconnect(c)
    \/ \E c \in Conns : \E m \in NextMsgs(c) : handle_create_room(c, m)
    \/ \E c \in Conns : \E m \in NextMsgs(c) : handle_join_game(c, m)
    \/ \E c \in Conns : \E m \in NextMsgs(c) : handle_player_ready(c, m)
    \/ \E t \in TaskIds : NextLoop(t)
    \/ \E t \in TaskIds : NextLoopEnd(t)
    \/ \E t \in TaskIds : LoopCancelled(t)

SpecLeave == InitLeave /\ [][NextLeave]_vars

\* ---- a match to one point; once game_over has been broadcast player 2
\* ---- leaves, and a third client takes the free slot and declares ready

RematchScript ==
    [c \in Conns |->
        IF c = 1 THEN << {CreateRoom(1)}, {JoinGame("player")}, {PlayerReady} >>
        ELSE IF c = 2 THEN << {JoinGame("player")}, {PlayerReady}, {Close} >>
        ELSE IF c = 3 THEN << {JoinGame("player")}, {PlayerReady} >>
        ELSE << >>]

InitRematch == InitWith(RematchScript, {1, 2, 3}, OneRandom, GameTicks)

\* the clients of this scenario wait for game_over before they leave, and the
\* third one before it joins
MatchOver == \E r \in DOMAIN rooms : rooms[r].game_over >= 1

NextRematch ==
    \/ \E c \in Conns : NextSession(c)
    \/ \E c \in Conns : MatchOver /\ NextDisconnect(c)
    \/ \E c \in Conns : \E m \in NextMsgs(c) : handle_create_room(c, m)
    \/ \E c \in Conns : \E m \in NextMsgs(c) :
            (c <= 2 \/ MatchOver) /\ handle_join_game(c, m)
    \/ \E c \in Conns : \E m \in NextMsgs(c) : handle_player_ready(c, m)
    \/ \E t \in TaskIds : NextLoop(t)
    \/ \E t \in TaskIds : NextLoopEnd(t)
    \/ \E t \in TaskIds : LoopCancelled(t)

SpecRematch == InitRematch /\ [][NextRematch]_vars

\* ---- the engine alone, with the paddle directions chosen before the match
\* ---- starts and kept for all of its GameTicks ticks

InitRally ==
    /\ ACTIVE_ROOMS = [k \in Codes |-> IF k = "A" THEN 1 ELSE 0]
    /\ rooms = << WithEngine(NewRoom("A"), "A") >>
    /\ tasks = <<>>
    /\ groups = [k \in Codes |-> {}]
    /\ conn = [c \in Conns |-> NewConn("A", FALSE)]
    /\ script = [c \in Conns |-> <<>>]
    /\ random = AnyRandom
    /\ ticks_left = GameTicks

NextRally ==
    \/ \E n \in Slots : EnginePlayerJoin(n)
    \/ \E n \in Slots : EnginePlayerReady(n)
    \/ \E n \in Slots : \E d \in PaddleDirections :
           rooms[1].engine.status # "playing" /\ EngineSetPaddleDirection(n, d)
    \/ EngineUpdate

SpecRally == InitRally /\ [][NextRally]_vars

\* ---- player 2 declares ready and leaves, a third client takes the slot

TakeoverScript ==
    [c \in Conns |->
        IF c = 1 THEN << {JoinGame("player")}, {PlayerReady} >>
        ELSE IF c = 2 THEN << {JoinGame("player")}, {PlayerReady}, {Close} >>
        ELSE IF c = 3 THEN << {JoinGame("player")}, {PlayerReady} >>
        ELSE << >>]

InitTakeover == InitWith(TakeoverScript, {1, 2, 3}, OneRandom, FewTicks)

NextTakeover ==
    \/ \E c \in Conns : NextSession(c)
    \/ \E c \in Conns : NextDisconnect(c)
    \/ \E c \in Conns : \E m \in NextMsgs(c) : handle_join_game(c, m)
    \/ \E c \in Conns : \E m \in NextMsgs(c) : handle_player_ready(c, m)
    \/ \E t \in TaskIds : NextLoop(t)
    \/ \E t \in TaskIds : LoopCancelled(t)

SpecTakeover == InitTakeover /\ [][NextTakeover]_vars

\* ------------------------------------------------------------------------
\* Properties
\* ------------------------------------------------------------------------

\* the place of a status in waiting_for_opponent -> waiting_for_ready ->
\* playing -> finished; 0 while the room has no engine
Rank(status) ==
    CASE status = "waiting_for_opponent" -> 1
      [] status = "waiting_for_ready" -> 2
      [] status = "playing" -> 3
      [] status = "finished" -> 4
      [] OTHER -> 0

\* the consumer is connected and its disconnect handler has not begun
Open(c) == conn[c].pc \in {"open", "join_game:send", "player_ready:group_send"}

\* task t is not done and nobody has called cancel() on it
Running(t) == t \in DOMAIN tasks /\ tasks[t].pc # "done" /\ ~tasks[t].cancel

\* task t runs and has made at least one pass of its loop
Looping(t) == Running(t) /\ tasks[t].pc # "created"

\* the room code task t was started for
TaskCode(t) == conn[tasks[t].self].room_code

\* room dict r has the channel of c in a player slot
HoldsSlot(r, c) == \E n \in Slots : rooms[r].players[n] = c

\* the step of c from `await group_discard` into lines 54-83 of disconnect
Detaches(c) == conn[c].pc = "disconnect:group_discard" /\ conn'[c].pc # conn[c].pc

\* C1: over every sequence of messages, disconnects and ticks, no step moves
\* an engine's status to an earlier one of waiting_for_opponent,
\* waiting_for_ready, playing, finished, and finished stays finished.
C1_StatusOnlyMovesForward ==
    [][\A r \in DOMAIN rooms :
          Rank(rooms'[r].engine.status) >= Rank(rooms[r].engine.status)]_vars

\* C2: at no time do two game_loop tasks that are not finished run for the
\* same room code.
C2_OneLoopPerRoomCode ==
    \A t1, t2 \in DOMAIN tasks :
        (t1 # t2 /\ Looping(t1) /\ Looping(t2)) => TaskCode(t1) # TaskCode(t2)

\* C3: while a game_loop task of a room code runs (not done, not
\* cancel-requested), some connection to that code has connected and its
\* disconnect handler has not finished.
C3_RunningLoopHasConnection ==
    \A t \in DOMAIN tasks :
        Looping(t) =>
            \E c \in Conns : conn[c].room_code = TaskCode(t)
                             /\ conn[c].pc \notin {"absent", "new", "closed"}

\* C4: two distinct open connections that joined the same room as players
\* never hold the same player number.
C4_OnePlayerPerNumber ==
    \A c1, c2 \in Conns :
        (c1 # c2 /\ Open(c1) /\ Open(c2)
         /\ conn[c1].role = "player" /\ conn[c2].role = "player"
         /\ conn[c1].player_num # 0
         /\ conn[c1].room # 0 /\ conn[c1].room = conn[c2].room)
        => conn[c1].player_num # conn[c2].player_num

\* C5: when several connections connect to one fresh room code and send
\* create_room and join_game in any interleaving, one room dict is made for
\* the code, the registry holds it once a connect has finished, its engine is
\* constructed once, and every connection that joined works on that room.
C5_OneRoomOneEngine ==
    /\ Len(rooms) <= 1
    /\ \A r \in DOMAIN rooms : rooms[r].constructed <= 1
    /\ \A c \in Conns :
          /\ Open(c) => ACTIVE_ROOMS[conn[c].room_code] = 1
          /\ (Open(c) /\ (conn[c].ip > 0 \/ conn[c].room # 0)) =>
                 /\ rooms[1].constructed = 1
                 /\ rooms[1].engine # NoEngine
          /\ conn[c].room # 0 => conn[c].room = ACTIVE_ROOMS[conn[c].room_code]

\* every client of the first-access scenario has sent both its messages, a
\* create_room among them, and all of them joined the one room
C5_AllJoinedOneRoom ==
    /\ \A c \in 1 .. JoinConns : conn[c].pc = "open" /\ conn[c].ip = 2 /\ conn[c].room = 1
    /\ rooms[1].constructed = 1
    /\ rooms[1].engine.points_limit = 2

\* an engine of room dict r becomes finished in this step
Finishes(r) ==
    /\ rooms[r].engine # NoEngine
    /\ rooms[r].engine.status # "finished"
    /\ rooms'[r].engine.status = "finished"

\* in this step score_p1 (n = 1) or score_p2 (n = 2) of room dict r changes
\* and becomes equal to points_limit
ReachesLimit(r, n) ==
    LET e == rooms[r].engine
        f == rooms'[r].engine
    IN  /\ e # NoEngine
        /\ IF n = 1 THEN f.score_p1 # e.score_p1 /\ f.score_p1 = f.points_limit
                    ELSE f.score_p2 # e.score_p2 /\ f.score_p2 = f.points_limit

\* C6: an engine becomes finished exactly in the tick in which one player's
\* score first equals points_limit, and winner then names the player whose
\* score reached it.
C6_FinishedIffLimitReached ==
    [][\A r \in DOMAIN rooms :
          /\ Finishes(r) <=> (ReachesLimit(r, 1) \/ ReachesLimit(r, 2))
          /\ (Finishes(r) /\ ReachesLimit(r, 1)) => rooms'[r].engine.winner = "Player 1"
          /\ (Finishes(r) /\ ReachesLimit(r, 2)) => rooms'[r].engine.winner = "Player 2"]_vars

\* C7: in every reachable state both scores are between 0 and points_limit and
\* at most one of them equals points_limit.
C7_ScoresWithinLimit ==
    \A r \in DOMAIN rooms :
        rooms[r].engine # NoEngine =>
            LET e == rooms[r].engine
            IN  /\ 0 <= e.score_p1 /\ e.score_p1 <= e.points_limit
                /\ 0 <= e.score_p2 /\ e.score_p2 <= e.points_limit
                /\ ~(e.score_p1 = e.points_limit /\ e.score_p2 = e.points_limit)

\* task t makes one engine.update call in this step
Ticks(t) ==
    /\ t \in DOMAIN tasks'
    /\ tasks'[t].pc = "loop:group_send"
    /\ t \notin DOMAIN tasks \/ tasks[t].pc # "loop:group_send"

\* C8: every update() tick changes score_p1 + score_p2 by 0 or by +1 and its
\* events["score"] names the player who scored, and no step of any operation
\* decreases a score.
C8_ScoreStepsByOne ==
    [][/\ \A r \in DOMAIN rooms :
             rooms[r].engine # NoEngine =>
                 /\ rooms'[r].engine.score_p1 >= rooms[r].engine.score_p1
                 /\ rooms'[r].engine.score_p2 >= rooms[r].engine.score_p2
       /\ \A t \in TaskIds :
             Ticks(t) =>
                 LET r == tasks'[t].room
                     d1 == rooms'[r].engine.score_p1 - rooms[r].engine.score_p1
                     d2 == rooms'[r].engine.score_p2 - rooms[r].engine.score_p2
                     score == tasks'[t].events.score
                 IN  \/ score = 0 /\ d1 = 0 /\ d2 = 0
                     \/ score = 1 /\ d1 = 1 /\ d2 = 0
                     \/ score = 2 /\ d1 = 0 /\ d2 = 1]_vars

\* a tick has just scored the second point of player 2 and the match goes on
C8_SecondPointScored ==
    \E t \in DOMAIN tasks :
        /\ tasks[t].pc = "loop:group_send"
        /\ tasks[t].events.score = 2
        /\ rooms[tasks[t].room].engine.score_p2 = 2
        /\ rooms[tasks[t].room].engine.status = "playing"

\* C9: when a connection that was given a player slot disconnects while its
\* room's game_loop task runs, the disconnect handler requests the task's
\* cancellation; and a disconnect when that task is absent, done or already
\* cancelled changes no task.
C9_PlayerDisconnectCancels ==
    [][\A c \in Conns :
          LET r == ACTIVE_ROOMS[conn[c].room_code]
          IN  (Detaches(c) /\ r # 0) =>
                  /\ (HoldsSlot(r, c) /\ Looping(rooms[r].task)) =>
                         tasks'[rooms[r].task].cancel
                  /\ ~Running(rooms[r].task) => tasks' = tasks]_vars

\* the open connections other than c that room dict r holds as player or observer
Remaining(r, c) ==
    {d \in Conns \ {c} : Open(d) /\ (HoldsSlot(r, d) \/ InSeq(rooms[r].observers, d))}

\* C10: when a connection that holds a player slot disconnects, a
\* player_disconnected message with its player number is sent to every
\* connection remaining in the room and not to the disconnecting one.
C10_PlayerDisconnectBroadcast ==
    [][\A c \in Conns :
          LET r == ACTIVE_ROOMS[conn[c].room_code]
          IN  (Detaches(c) /\ r # 0 /\ HoldsSlot(r, c)) =>
                  /\ \A d \in Remaining(r, c) :
                         /\ d \in conn'[c].pd_to
                         /\ conn'[c].pd_num = conn[c].player_num
                  /\ c \notin conn'[c].pd_to]_vars

\* the disconnect handler of c returns in this step
EndsDisconnect(c) ==
    /\ conn[c].pc \in {"disconnect:group_discard", "disconnect:group_send"}
    /\ conn'[c].pc = "closed"

\* the room dict the disconnect handler of c bound to `room` (line 55), 0 when
\* the code was not in the registry
HandlerRoom(c) ==
    IF conn[c].pc = "disconnect:group_send" THEN conn[c].room
    ELSE ACTIVE_ROOMS[conn[c].room_code]

\* C11: at the end of every disconnect handler, if the room's player map and
\* observer list are both empty, the registry has no entry for the room and
\* the room's task, if it was running, is cancel-requested.
C11_EmptyRoomDestroyed ==
    [][\A c \in Conns :
          LET r == HandlerRoom(c)
          IN  (EndsDisconnect(c) /\ r # 0 /\ RoomEmpty(rooms'[r])) =>
                  /\ ACTIVE_ROOMS'[conn[c].room_code] = 0
                  /\ rooms'[r].task # 0 =>
                         \/ tasks'[rooms'[r].task].pc = "done"
                         \/ tasks'[rooms'[r].task].cancel]_vars

\* every connection has left, the room that had a game loop is empty and out
\* of the registry, and its loop was cancelled before it ended
C11_LastPlayerLeft ==
    /\ \A c \in 1 .. FreeConns : conn[c].pc = "closed"
    /\ Len(rooms) = 1 /\ RoomEmpty(rooms[1])
    /\ ACTIVE_ROOMS["A"] = 0
    /\ rooms[1].task # 0
    /\ tasks[rooms[1].task].cancel

\* c handles a join_game with role player in this step
JoinsAsPlayer(c) ==
    /\ JoinGame("player") \in NextMsgs(c)
    /\ handle_join_game(c, JoinGame("player"))

\* both player slots of room dict r are taken
Full(r) == rooms[r].players[1] # 0 /\ rooms[r].players[2] # 0

\* C12: a join_game with role player on a room whose two slots are occupied
\* is acknowledged joined_as_observer, the sender is appended to the observer
\* list and the slot holders stay as they were.
C12_FullRoomJoinsAsObserver ==
    [][\A c \in Conns :
          LET r == ACTIVE_ROOMS[conn[c].room_code]
          IN  (r # 0 /\ Full(r) /\ JoinsAsPlayer(c)) =>
                  /\ conn'[c].reply = <<"joined_as_observer">>
                  /\ conn'[c].role = "observer"
                  /\ rooms'[r].observers = Append(rooms[r].observers, c)
                  /\ rooms'[r].players = rooms[r].players]_vars

\* a third connection asked to play in a room whose slots two other open
\* connections hold, and was made an observer
C12_ThirdIsObserver ==
    \E c \in Conns :
        /\ conn[c].reply = <<"joined_as_observer">>
        /\ conn[c].room # 0
        /\ Full(conn[c].room)
        /\ \A n \in Slots : rooms[conn[c].room].players[n] # c
                            /\ Open(rooms[conn[c].room].players[n])
        /\ InSeq(rooms[conn[c].room].observers, c)

\* the handler of a frame of c runs its first step in this step
Handles(c) == conn[c].pc = "open" /\ conn'[c].pc # "disconnect:group_discard"
              /\ conn'[c] # conn[c]

\* C13: once a room's engine exists, no create_room or join_game replaces it
\* or changes its points_limit; the limit is that of the first create_room if
\* a create_room made the engine, and 5 if a join_game made it.
C13_FirstLimitWins ==
    [][\A r \in DOMAIN rooms :
          /\ rooms[r].engine # NoEngine =>
                 /\ rooms'[r].engine.points_limit = rooms[r].engine.points_limit
                 /\ rooms'[r].constructed = rooms[r].constructed
          /\ (rooms[r].engine = NoEngine /\ rooms'[r].engine # NoEngine) =>
                 /\ rooms'[r].constructed = 1
                 /\ \E c \in Conns :
                       /\ Handles(c)
                       /\ \/ /\ conn'[c].reply = <<"room_created">>
                             /\ \E m \in NextMsgs(c) :
                                   /\ m.type = "create_room"
                                   /\ rooms'[r].engine.points_limit = m.points_limit
                          \/ /\ conn'[c].reply \in {<<"joined_as_player">>,
                                                    <<"joined_as_observer">>}
                             /\ rooms'[r].engine.points_limit = 5]_vars

\* a join_game made the engine with limit 5, and a create_room handled later
\* was dropped without a reply
C13_LateCreateDropped ==
    /\ Len(rooms) = 1
    /\ rooms[1].engine # NoEngine
    /\ rooms[1].engine.points_limit = 5
    /\ \E c \in Conns : conn[c].ip > 0 /\ conn[c].pc = "open" /\ conn[c].reply = <<>>

\* a handler of c calls channel_layer.group_send in this step: the
\* status_change of join_game and of player_ready, the player_disconnected of
\* disconnect
GroupSends(c) ==
    \/ conn[c].pc = "join_game:send" /\ conn'[c].pc = "open"
    \/ conn[c].pc = "open" /\ conn'[c].pc = "player_ready:group_send"
    \/ conn[c].pc = "disconnect:group_discard" /\ conn'[c].pc = "disconnect:group_send"

\* the connections to room code k that join_game acknowledged as player or
\* observer and that have not disconnected
Members(k) ==
    {c \in Conns : conn[c].room_code = k /\ Open(c) /\ conn[c].role # "None"}

\* C14: whenever a room's message is broadcast (status_change, game_update,
\* game_over, player_disconnected), the connections that receive it are
\* exactly those that join_game acknowledged and that have not disconnected.
C14_BroadcastToMembersOnly ==
    [][/\ \A c \in Conns :
             GroupSends(c) => groups[conn[c].room_code] = Members(conn[c].room_code)
       /\ \A t \in TaskIds :
             Ticks(t) => groups[TaskCode(t)] = Members(TaskCode(t))]_vars

\* the connections whose socket was opened on room code k
ConnsOf(k) == {c \in Conns : conn[c].room_code = k}

\* nothing that belongs to room code j changes in this step: its registry
\* entry, its group, its room dicts, its tasks and its consumers
Untouched(j) ==
    /\ ACTIVE_ROOMS'[j] = ACTIVE_ROOMS[j]
    /\ groups'[j] = groups[j]
    /\ \A r \in DOMAIN rooms : rooms[r].code = j => rooms'[r] = rooms[r]
    /\ \A r \in DOMAIN rooms' : r \notin DOMAIN rooms => rooms'[r].code # j
    /\ \A t \in DOMAIN tasks : TaskCode(t) = j => tasks'[t] = tasks[t]
    /\ \A t \in DOMAIN tasks' : t \notin DOMAIN tasks => conn[tasks'[t].self].room_code # j
    /\ \A c \in ConnsOf(j) : conn'[c] = conn[c]

\* C15: with two room codes in use at the same time, every broadcast of a
\* room goes only to connections of that room, and a message, disconnect or
\* tick of one room changes nothing of the other room.
C15_RoomsIsolated ==
    [][/\ \A k \in Codes :
             /\ groups'[k] \subseteq ConnsOf(k)
             /\ \A c \in ConnsOf(k) : conn'[c].pd_to \subseteq ConnsOf(k)
       /\ \A c \in Conns :
             conn'[c] # conn[c] => \A j \in Codes \ {conn[c].room_code} : Untouched(j)
       /\ \A t \in TaskIds :
             (t \in DOMAIN tasks /\ tasks'[t] # tasks[t]) =>
                 \A j \in Codes \ {TaskCode(t)} : Untouched(j)]_vars

\* a player of room A has left and player_disconnected went to the other
\* connection of A, while the loop of room B runs and both players of B are in
\* their slots
C15_OneLeavesOtherPlays ==
    /\ conn[1].pc = "closed"
    /\ conn[1].pd_to = {2}
    /\ \E t \in DOMAIN tasks : TaskCode(t) = "B" /\ Looping(t)
    /\ ACTIVE_ROOMS["B"] # 0
    /\ rooms[ACTIVE_ROOMS["B"]].players = <<3, 4>>
    /\ rooms[ACTIVE_ROOMS["B"]].engine.status = "playing"

\* the consumer of c receives frame m and runs the first step of its handling
Receives(c, m) ==
    /\ m \in NextMsgs(c)
    /\ \/ handle_create_room(c, m)
       \/ handle_join_game(c, m)
       \/ handle_player_ready(c, m)
       \/ handle_move_paddle(c, m)
       \/ receive_error(c, m)

\* the step of c changes nothing but c: not the registry, a room dict, an
\* engine, a task, a group or another consumer
NoSideEffect(c) ==
    /\ UNCHANGED <<ACTIVE_ROOMS, rooms, tasks, groups>>
    /\ \A d \in Conns \ {c} : conn'[d] = conn[d]
    /\ conn'[c].role = conn[c].role
    /\ conn'[c].player_num = conn[c].player_num

\* C16: a text that is not JSON, or a message whose type is not create_room,
\* join_game, player_ready or move_paddle (a missing type too), gets exactly
\* one error reply to its sender, nothing is sent to the group, and the
\* registry, the room and the engine do not change.
C16_BadFrameOneError ==
    [][\A c \in Conns : \A m \in BadFrames :
          Receives(c, m) =>
              /\ conn'[c].reply = <<"error">>
              /\ conn'[c].bcast = "None"
              /\ NoSideEffect(c)]_vars

\* connection 2 sent a bad frame while the match it plays in was running, and
\* has its error reply
C16_ErrorDuringMatch ==
    /\ conn[2].ip = 3
    /\ conn[2].reply = <<"error">>
    /\ rooms[1].engine.status = "playing"
    /\ \E t \in DOMAIN tasks : Looping(t)

\* the consumer of c has joined as a player
IsPlayer(c) == conn[c].role = "player" /\ conn[c].player_num # 0

\* the room registered under the code of c has an engine whose match is on
InPlay(c) ==
    LET r == ACTIVE_ROOMS[conn[c].room_code]
    IN  /\ r # 0
        /\ rooms[r].engine # NoEngine
        /\ rooms[r].engine.status = "playing"

\* the frame is dropped: no reply to c, nothing to the group, nothing changed
Ignored(c) ==
    /\ conn'[c].reply = <<>>
    /\ conn'[c].bcast = "None"
    /\ NoSideEffect(c)

Directions == {"up", "down", "stop", "left"}

\* C17: a move_paddle from a connection that is not a player, one with a
\* direction other than up, down and stop, one received while the engine is
\* not playing, and a player_ready from a connection that is not a player,
\* change nothing and are answered to nobody.
C17_InvalidFramesIgnored ==
    [][\A c \in Conns :
          /\ \A d \in Directions :
                 Receives(c, MovePaddle(d)) /\ (~IsPlayer(c) \/ ~InPlay(c)) => Ignored(c)
          /\ \A d \in Directions \ {"up", "down", "stop"} :
                 Receives(c, MovePaddle(d)) => Ignored(c)
          /\ Receives(c, PlayerReady) /\ ~IsPlayer(c) => Ignored(c)]_vars

\* C18: whatever directions are set and however many ticks run, both paddle
\* centres stay between half the paddle height and the field height minus
\* half the paddle height: 10 <= p1_y <= 90 and 10 <= p2_y <= 90.
C18_PaddlesInField ==
    \A r \in DOMAIN rooms :
        rooms[r].engine # NoEngine =>
            /\ 10 * Scale <= rooms[r].engine.p1_y /\ rooms[r].engine.p1_y <= 90 * Scale
            /\ 10 * Scale <= rooms[r].engine.p2_y /\ rooms[r].engine.p2_y <= 90 * Scale

\* paddle 1 is at the top edge and still told to go up, paddle 2 at the bottom
\* edge and still told to go down, after every tick of the run
C18_PushedAgainstEdges ==
    /\ rooms[1].engine.p1_y = 10 * Scale /\ rooms[1].engine.p1_direction = "up"
    /\ rooms[1].engine.p2_y = 90 * Scale /\ rooms[1].engine.p2_direction = "down"
    /\ ticks_left = 0

\* C19: straight after every update() tick in which a player scores, the ball
\* is at exactly (50, 50).
C19_BallCentredAfterScore ==
    [][\A t \in TaskIds :
          Ticks(t) /\ tasks'[t].events.score # 0 =>
              /\ rooms'[tasks'[t].room].engine.ball_x = 50 * Scale
              /\ rooms'[tasks'[t].room].engine.ball_y = 50 * Scale]_vars

\* task t has run the tick that finished the match of its room and has not
\* returned yet
Finishing(t) ==
    /\ t \in DOMAIN tasks
    /\ tasks[t].pc \in {"loop:group_send", "loop:save", "loop:game_over"}
    /\ rooms[tasks[t].room].engine.status = "finished"

\* C20: the game loop whose tick finished the match saves the match record,
\* then broadcasts game_over, then returns, and does nothing else: it leaves
\* the state broadcast only to save, the save only to broadcast game_over
\* with the record written, and returns only after that broadcast, whatever
\* the connections do meanwhile.
C20_FinishSavesAnnouncesStops ==
    [][\A t \in TaskIds :
          Finishing(t) /\ tasks'[t].pc # tasks[t].pc =>
              LET r == tasks[t].room
              IN  \/ /\ tasks[t].pc = "loop:group_send"
                     /\ tasks'[t].pc = "loop:save"
                  \/ /\ tasks[t].pc = "loop:save"
                     /\ tasks'[t].pc = "loop:game_over"
                     /\ rooms'[r].saved = rooms[r].saved + 1
                     /\ rooms'[r].game_over = rooms[r].game_over + 1
                  \/ /\ tasks[t].pc = "loop:game_over"
                     /\ tasks'[t].pc = "done"
                     /\ rooms[r].saved >= 1
                     /\ rooms[r].game_over >= 1]_vars

\* C21: over the whole lifetime of a room the match record of its engine is
\* handed to save_match_history at most once and game_over is broadcast at
\* most once, whatever joins, readies and disconnects follow the end of the
\* match.
C21_SavedAndAnnouncedOnce ==
    \A r \in DOMAIN rooms : rooms[r].saved <= 1 /\ rooms[r].game_over <= 1

\* C22: the first game_update broadcast after the match enters playing, the
\* one of the first pass of the game loop, reports ball_x = 50.0 and
\* ball_y = 50.0.
C22_FirstUpdateCentred ==
    [][\A t \in TaskIds :
          t \in DOMAIN tasks /\ tasks[t].pc = "created" /\ Ticks(t) =>
              LET state == get_state(rooms'[tasks'[t].room].engine)
              IN  state.ball_x = 50 * Scale /\ state.ball_y = 50 * Scale]_vars

\* the magnitude of the ball's velocity
Speed(e) == Sqrt(e.ball_velocity_x * e.ball_velocity_x
                 + e.ball_velocity_y * e.ball_velocity_y)

\* the fixed-point error allowed when two speeds are compared
SpeedTolerance == 5

\* this step is an update() of the engine of room 1 in which the ball hits a
\* paddle
PaddleHit ==
    \E angle \in random.uniform :
        LET u == update(rooms[1].engine, angle)
        IN  /\ u.events.paddle_hit
            /\ rooms'[1].engine = u.engine
            /\ ticks_left' = ticks_left - 1

\* C23: after every paddle collision the speed of the ball is min(the speed
\* it had before the collision * 1.05, MAX_BALL_SPEED), wherever the ball
\* hits the paddle, and so never above MAX_BALL_SPEED.
C23_HitSpeedsUpByFactor ==
    [][PaddleHit =>
          /\ Abs(Speed(rooms'[1].engine)
                 - Min(MulDiv(Speed(rooms[1].engine), SPEED_INCREASE_FACTOR, 100),
                       MAX_BALL_SPEED)) <= SpeedTolerance
          /\ Speed(rooms'[1].engine) <= MAX_BALL_SPEED + SpeedTolerance]_vars

\* this step is an update() of the engine of room 1 in which player k scores
\* and the match goes on
ScoresOn(k) ==
    \E angle \in random.uniform :
        LET u == update(rooms[1].engine, angle)
        IN  /\ u.events.score = k
            /\ u.engine.status = "playing"
            /\ rooms'[1].engine = u.engine
            /\ ticks_left' = ticks_left - 1

\* C24: after every score that does not end the match the ball is served
\* toward the player who was scored on: horizontal velocity negative when
\* player 2 scored, positive when player 1 scored, whatever the scores are.
C24_ServeTowardScoredOn ==
    [][/\ ScoresOn(2) => rooms'[1].engine.ball_velocity_x < 0
       /\ ScoresOn(1) => rooms'[1].engine.ball_velocity_x > 0]_vars

\* C25: a game_loop task that a disconnect has cancelled makes no further
\* engine.update, sends no further game_update or game_over, and ends: the
\* only step it still takes is the one that ends it.
C25_CancelledLoopStops ==
    [][\A t \in TaskIds :
          t \in DOMAIN tasks /\ tasks[t].cancel =>
              /\ ~Ticks(t)
              /\ \/ tasks'[t] = tasks[t]
                 \/ tasks'[t] = [tasks[t] EXCEPT !.pc = "done"]
              /\ tasks'[t].pc # tasks[t].pc =>
                     /\ rooms' = rooms]_vars

\* a loop that was cancelled between two ticks of a running match has ended
C25_CancelledMidMatch ==
    \E t \in DOMAIN tasks :
        /\ tasks[t].cancel /\ done(t)
        /\ tasks[t].room # 0
        /\ rooms[tasks[t].room].engine.status = "playing"
        /\ rooms[tasks[t].room].engine.ball_x # 50 * Scale

\* the number of places of room dict r that hold the channel of c: player
\* slots and entries of the observer list
Places(r, c) ==
    Cardinality({n \in Slots : rooms[r].players[n] = c})
    + Cardinality({i \in 1 .. Len(rooms[r].observers) : rooms[r].observers[i] = c})

\* C26: the handle of a connection is in at most one place of its room: one
\* player slot or one entry of the observer list, never two slots, never a
\* slot and the observer list, whatever join_game messages it sends.
C26_OnePlacePerConnection ==
    \A r \in DOMAIN rooms : \A c \in Conns : Places(r, c) <= 1

\* C27: once the disconnect handler of a connection has finished, no player
\* slot and no observer list of a room in the registry holds its handle,
\* whatever join_game messages it sent while it was connected.
C27_ClosedConnectionGone ==
    \A c \in Conns :
        conn[c].pc = "closed" =>
            \A k \in Codes : ACTIVE_ROOMS[k] # 0 => Places(ACTIVE_ROOMS[k], c) = 0

\* C28: in every state of a room the winner is unset while the status is not
\* finished, and is Player 1 or Player 2 when it is finished.
C28_WinnerIffFinished ==
    \A r \in DOMAIN rooms :
        rooms[r].engine # NoEngine =>
            IF rooms[r].engine.status = "finished"
            THEN rooms[r].engine.winner \in {"Player 1", "Player 2"}
            ELSE rooms[r].engine.winner = "None"

\* C29: update() on an engine whose status is not playing changes nothing
\* (paddles, ball, scores, winner, status) and returns an event record with no
\* paddle hit, no wall hit and no score; so paddles and ball are frozen once
\* the match is finished.
C29_UpdateOnlyWhilePlaying ==
    \A r \in DOMAIN rooms :
        rooms[r].engine # NoEngine /\ rooms[r].engine.status # "playing" =>
            \A angle \in random.uniform :
                update(rooms[r].engine, angle) = [engine |-> rooms[r].engine,
                                                 events |-> NoEvents]

\* a match is finished while paddle 1 is still told to move
C29_FinishedWithMovingPaddle ==
    /\ rooms[1].engine.status = "finished"
    /\ rooms[1].engine.p1_direction # "stop"
    /\ ENABLED EngineUpdate

\* the ready flag of player n
Ready(e, n) == IF n = 1 THEN e.player1_ready ELSE e.player2_ready

\* C30: player_ready changes the status only from waiting_for_ready to
\* playing and only at the call after which both ready flags are true; a ready
\* of one player while the other is not ready, and a repeated ready of a
\* player who is ready already, leave the status as it is, and so does a ready
\* in any status other than waiting_for_ready.
C30_ReadyStartsOnlyWhenBoth ==
    [][\A n \in Slots :
          EnginePlayerReady(n) =>
              LET old == rooms[1].engine
                  new == rooms'[1].engine
              IN  /\ new.status # old.status =>
                         /\ old.status = "waiting_for_ready"
                         /\ new.status = "playing"
                         /\ new.player1_ready /\ new.player2_ready
                  /\ ~Ready(new, 3 - n) => new.status = old.status
                  /\ Ready(old, n) => new.status = old.status
                  /\ old.status # "waiting_for_ready" => new.status = old.status]_vars

\* the connected flag of player n
Connected(e, n) == IF n = 1 THEN e.player1_connected ELSE e.player2_connected

\* C31: player_join(n) for a slot n that is already marked connected leaves
\* the whole engine state unchanged (status, ready flags, scores, winner,
\* paddles, ball), in every status the engine can be in.
C31_JoinAgainChangesNothing ==
    \A r \in DOMAIN rooms :
        rooms[r].engine # NoEngine =>
            \A n \in Slots :
                Connected(rooms[r].engine, n) =>
                    player_join(rooms[r].engine, n) = rooms[r].engine

\* C32: every engine of a room in the registry has a points_limit that is a
\* positive integer, whatever points_limit the create_room message carried.
C32_PointsLimitPositive ==
    \A k \in Codes :
        ACTIVE_ROOMS[k] # 0 /\ rooms[ACTIVE_ROOMS[k]].engine # NoEngine =>
            rooms[ACTIVE_ROOMS[k]].engine.points_limit > 0

\* C33: set_paddle_direction(playerNum, dir) with a dir other than up, down
\* and stop leaves the stored paddle direction and the rest of the engine
\* state unchanged.
C33_InvalidDirectionRejected ==
    \A r \in DOMAIN rooms :
        rooms[r].engine # NoEngine =>
            \A n \in Slots : \A d \in Directions \ PaddleDirections :
                set_paddle_direction(rooms[r].engine, n, d) = rooms[r].engine

\* C34: a tick runs atomically with respect to the message handlers: a
\* move_paddle handled between two ticks only stores its direction, as one
\* whole value, and moves nothing; the next tick moves each paddle by the one
\* direction stored for it when the tick begins, and leaves the directions
\* as they are.
C34_TickAndMoveAtomic ==
    [][/\ \A t \in TaskIds :
             Ticks(t) =>
                 LET old == rooms[tasks'[t].room].engine
                     new == rooms'[tasks'[t].room].engine
                 IN  /\ new.p1_y = PaddleClamp(PaddleStep(old.p1_y, old.p1_direction))
                     /\ new.p2_y = PaddleClamp(PaddleStep(old.p2_y, old.p2_direction))
                     /\ new.p1_direction = old.p1_direction
                     /\ new.p2_direction = old.p2_direction
       /\ \A c \in Conns : \A d \in Directions :
             Receives(c, MovePaddle(d)) =>
                 \A r \in DOMAIN rooms :
                     rooms[r].engine # NoEngine =>
                         /\ rooms'[r].engine.p1_direction \in {rooms[r].engine.p1_direction, d}
                         /\ rooms'[r].engine.p2_direction \in {rooms[r].engine.p2_direction, d}
                         /\ [rooms'[r].engine EXCEPT !.p1_direction = "stop",
                                                     !.p2_direction = "stop"]
                            = [rooms[r].engine EXCEPT !.p1_direction = "stop",
                                                      !.p2_direction = "stop"]]_vars

\* a move_paddle arrived between the first and the second tick of a match:
\* the ball has moved twice, the paddle once
C34_MoveBetweenTicks ==
    \E r \in DOMAIN rooms :
        /\ rooms[r].engine # NoEngine
        /\ rooms[r].engine.ball_x = 50 * Scale + 2 * rooms[r].engine.ball_velocity_x
        /\ \/ rooms[r].engine.p1_y = 50 * Scale - PADDLE_SPEED
           \/ rooms[r].engine.p2_y = 50 * Scale - PADDLE_SPEED

\* C35: a disconnect handler removes from the registry only a room whose own
\* player slots and observer list are empty: no step deletes the entry of a
\* room dict that has a player or an observer, however disconnects interleave
\* with connects and joins on the same code.
C35_OnlyEmptyRoomDeleted ==
    [][\A k \in Codes :
          ACTIVE_ROOMS[k] # 0 /\ ACTIVE_ROOMS'[k] = 0 =>
              RoomEmpty(rooms'[ACTIVE_ROOMS[k]])]_vars

\* C36: while a connection is open its room code is in the registry, so its
\* join_game is never answered with the error and its create_room never
\* dropped, whatever other connections to the code connect and disconnect.
C36_OpenConnectionHasRoom ==
    \A c \in Conns : Open(c) => ACTIVE_ROOMS[conn[c].room_code] # 0

\* C37: a game_loop task is started for a room only while both of its player
\* slots are held: after a player has disconnected and left its slot, no
\* message of the remaining connections starts a task until a second player
\* has joined again.
C37_LoopStartsWithTwoPlayers ==
    [][\A t \in TaskIds :
          t \notin DOMAIN tasks /\ t \in DOMAIN tasks' =>
              LET r == conn[tasks'[t].self].room
              IN  \A n \in Slots : rooms'[r].players[n] # 0]_vars

\* in the connection states cs, the client of c has sent player_ready after
\* its join_game as player
SentReady(cs, c) ==
    \E i \in 1 .. Len(script[c]) :
        /\ script[c][i] = {PlayerReady}
        /\ \E j \in 1 .. i - 1 : script[c][j] = {JoinGame("player")}
        /\ \/ i <= cs[c].ip
           \/ i = cs[c].ip + 1 /\ cs[c].pc = "player_ready:group_send"

\* C38: the engine enters playing only after each connection that holds a
\* player slot at that moment has itself sent player_ready since it joined; the
\* ready of a player who left does not count for the one who took its slot.
C38_PlayingNeedsOwnReady ==
    [][\A r \in DOMAIN rooms :
          (rooms[r].engine.status # "playing"
           /\ rooms'[r].engine.status = "playing") =>
              \A n \in Slots :
                  rooms'[r].players[n] # 0 => SentReady(conn', rooms'[r].players[n])]_vars

\* C39: once every connection that connected to a room code has finished its
\* disconnect handler, the registry has no entry for that code, whatever
\* create_room, join_game, player_ready and move_paddle frames they sent.
C39_NoRoomWithoutConnections ==
    \A k \in Codes :
        (/\ \E c \in Conns : conn[c].room_code = k /\ conn[c].pc = "closed"
         /\ \A c \in Conns :
                conn[c].room_code = k => conn[c].pc \in {"absent", "new", "closed"})
            => ACTIVE_ROOMS[k] = 0

\* C40: in every state the frames of the clients can lead to, a status other
\* than waiting_for_opponent implies both players are marked connected, and a
\* status playing or finished implies both players are marked ready.
C40_StatusImpliesFlags ==
    \A r \in DOMAIN rooms :
        rooms[r].engine # NoEngine =>
            LET e == rooms[r].engine
            IN  /\ e.status # "waiting_for_opponent" =>
                       e.player1_connected /\ e.player2_connected
                /\ e.status \in {"playing", "finished"} =>
                       e.player1_ready /\ e.player2_ready

\* a room whose match has ended, both flags of each player still set, and one
\* of whose clients has finished its disconnect handler
C40_FinishedAfterTakeover ==
    \E r \in DOMAIN rooms :
        /\ rooms[r].engine # NoEngine
        /\ rooms[r].engine.status = "finished"
        /\ \E c \in Conns : conn[c].pc = "closed"

====
